---- MODULE Spec2Model ----
(***************************************************************************)
(* Model of tools/python/noinput.py: the runAPBS driver, which walks the   *)
(* configured electrostatics calculations through the multigrid solver     *)
(* (initMG, solveMG, setPartMG, extraction), aggregates the per-calculation*)
(* results, evaluates the print directives, cleans up and returns; and     *)
(* printResults, which the main program calls on the returned lists.       *)
(*                                                                         *)
(* Python lists are sequences; a zero-based Python index i is position     *)
(* i + 1 of the sequence (operator Get).  The solver (apbslib) is external:*)
(* each call's status or value is a nondeterministic choice.               *)
(***************************************************************************)
EXTENDS Integers, Sequences, FiniteSets, TLC

\* ---- bounds of the model ----
MaxCalc == 2
MaxPrint == 2
MaxLines == 2

\* ---- values of the external library ----
NPT_ENERGY == "NPT_ENERGY"
NPT_FORCE == "NPT_FORCE"
NPT_OTHER == "NPT_OTHER"
PrintKinds == {NPT_ENERGY, NPT_FORCE, NPT_OTHER}

\* status values an apbslib routine can report (1 is success)
Statuses == {0, 1}
\* total energies energyMG can return: two values that differ from each
\* other and from the initial 0.0
EnergyVals == {1, 2}

NoResult == "NoResult"
NoError == "NoError"
NoPrint == [iprint |-> -1, what |-> "none", operands |-> << >>, value |-> 0]

VARIABLES
    pc,          \* position in runAPBS / the main program
    nosh,        \* the NOsh object: parsed configuration
    totEnergy,   \* run-scoped total-energy array
    energyList,  \* Python holders
    potList,
    forceList,
    icalc,       \* index of the calculation loop
    iprint,      \* index of the print loop
    live,        \* native structures allocated and not yet released
    handles,     \* calculations whose solver objects (pbe, pmgp, pmg) exist
    freed,       \* how many times each native structure was released
    trace,       \* history of the calls made into apbslib
    result,      \* what the caller of runAPBS received
    error,       \* the exception that left runAPBS, if any
    report,      \* what printResults wrote
    printed,     \* the print directive evaluated last: operands and value
    INPUT,       \* the APBS input the module carries, as its sections
    PQR,         \* the atom records the module carries, as a list of lines
    valist,      \* what Valist_load was given: the atom count and five lists
    elec_k       \* k, the loop variable of the elec-section lookup

vars == <<pc, nosh, totEnergy, energyList, potList, forceList, icalc, iprint,
          live, handles, freed, trace, result, error, report, printed, INPUT, PQR, valist, elec_k>>

\* ---- helpers ----
Get(list, i) == list[i + 1]

SeqsUpTo(S, n) == UNION {[1..m -> S] : m \in 0..n}

\* one elec section: mg-manual gives one calculation per section
\* the temperature every elec section of INPUT declares, in hundredths of a kelvin
RoomTemp == 29815
\* the temperatures a section can declare
Temps == {RoomTemp, 31000}

\* one elec section: its calculation type, force request and temperature, and
\* the number of calculations it stands for (one, or two when it is focused)
ElecSpecs == [calctype : {0, 1}, calcforce : {0, 2}, temp : {RoomTemp}, ncalcs : {1}]

\* the number of calculations a list of sections stands for
RECURSIVE TotalCalcs(_)
TotalCalcs(elec) ==
    IF elec = << >> THEN 0 ELSE elec[1].ncalcs + TotalCalcs(Tail(elec))

\* the lists of at most n sections that stand for at most n calculations
ElecLists(S, n) == {e \in SeqsUpTo(S, n) : TotalCalcs(e) <= n}

\* NOsh_setupElecCalc: each section becomes its calculations, in order
RECURSIVE Expand(_)
Expand(elec) ==
    IF elec = << >> THEN << >>
    ELSE [j \in 1..elec[1].ncalcs |-> elec[1]] \o Expand(Tail(elec))

\* elec2calc of section number j (from 1): the index of its last calculation
LastCalcs(elec) == [j \in 1..Len(elec) |-> TotalCalcs(SubSeq(elec, 1, j)) - 1]

\* a Python name that has not been assigned
Unbound == -1

\* the inputs of the model: the elec sections and print directives declared,
\* and the number of molecules read
Configs == [elec : ElecLists(ElecSpecs, MaxCalc),
            printwhat : SeqsUpTo(PrintKinds, MaxPrint),
            nmol : {1}]

\* capacity of the per-molecule and per-calculation native arrays
NOSH_MAXMOL == 20
NOSH_MAXCALC == 20

\* inputs that declare one calculation or one molecule more than fits
OversizedConfigs ==
    { [elec |-> [i \in 1..(NOSH_MAXCALC + 1) |-> [calctype |-> 0, calcforce |-> 0, temp |-> RoomTemp, ncalcs |-> 1]],
       printwhat |-> << >>, nmol |-> 1],
      [elec |-> << [calctype |-> 0, calcforce |-> 0, temp |-> RoomTemp, ncalcs |-> 1] >>,
       printwhat |-> << >>, nmol |-> NOSH_MAXMOL + 1] }

\* faulty variant: the parser accepts any number of sections and molecules
ConfigLimitExceeded_never(cfg) == FALSE

\* the parser's capacity validation: more molecules or more calculations
\* than the fixed upper bound is a configuration error
ConfigLimitExceeded(cfg) ==
    cfg.nmol > NOSH_MAXMOL \/ TotalCalcs(cfg.elec) > NOSH_MAXCALC

NOsh_ctor == [elec |-> <<>>, nelec |-> 0, printwhat |-> <<>>, nprint |-> 0,
              ncalc |-> 0, calc |-> <<>>, elec2calc |-> <<>>]

\* native structures of runAPBS
InitStructs == {"pbe", "pmg", "pmgp", "realCenter", "nforce", "atomforce"}
DielStructs == {"dielXMap", "dielYMap", "dielZMap"}
AllStructs == InitStructs \cup DielStructs \cup {"alist", "kappaMap", "chargeMap"}

\* the structures each apbslib routine is handed by runAPBS (thispmg is an
\* element of pmg, aforce one of atomforce, myAlist one of alist)
Args(op) ==
    CASE op = "parseInputFromString" -> {"nosh", "INPUT"}
      [] op = "Valist_load" -> {"alist", "x", "y", "z", "chg", "rad"}
      [] op = "NOsh_setupElecCalc" -> {"nosh", "alist"}
      [] op = "loadDielMaps" -> {"nosh", "dielXMap", "dielYMap", "dielZMap"}
      [] op = "loadKappaMaps" -> {"nosh", "kappaMap"}
      [] op = "loadChargeMaps" -> {"nosh", "chargeMap"}
      [] op = "initMG" -> {"nosh", "realCenter", "pbe", "alist", "dielXMap",
                           "dielYMap", "dielZMap", "kappaMap", "chargeMap",
                           "pmgp", "pmg"}
      [] op = "solveMG" -> {"nosh", "pmg"}
      [] op = "setPartMG" -> {"nosh", "pmg"}
      [] op = "energyMG" -> {"nosh", "pmg"}
      [] op = "wrap_forceMG" -> {"mem", "nosh", "pmg", "atomforce", "alist", "nforce"}
      [] op = "writedataMG" -> {"nosh", "pmg"}
      [] op = "writematMG" -> {"nosh", "pmg"}
      [] op = "getPotentials" -> {"nosh", "pmg", "alist"}
      [] op = "getEnergies" -> {"pmg", "alist"}
      [] op = "getForces" -> {"atomforce", "alist"}
      [] op = "printEnergy" -> {"com", "nosh", "totEnergy"}
      [] op = "printForce" -> {"com", "nosh", "nforce", "atomforce"}
      [] op = "killForce" -> {"mem", "nosh", "nforce", "atomforce"}
      [] op = "killMG" -> {"nosh", "pbe", "pmgp", "pmg"}
      [] op = "killChargeMaps" -> {"nosh", "chargeMap"}
      [] op = "killKappaMaps" -> {"nosh", "kappaMap"}
      [] op = "killDielMaps" -> {"nosh", "dielXMap", "dielYMap", "dielZMap"}
      [] op = "killMolecules" -> {"nosh", "alist"}
      [] OTHER -> {}

\* one entry of the call history: routine, calculation or directive index,
\* returned status or value, structures handed over
Call(op, idx, ret) == [op |-> op, idx |-> idx, ret |-> ret, args |-> Args(op)]

\* ---- the external solver, as runAPBS sees it ----

\* the per-atom potentials, energies and forces the solver holds for a calculation
getPotentials(i) == [kind |-> "potentials", calc |-> i]
getEnergies(i) == [kind |-> "energies", calc |-> i]
getForces(i) == [kind |-> "forces", calc |-> i]

\* doforce: > 0 if anything other than "calcforce no" is specified
wrap_forceMG(i) == Get(nosh.calc, i).calcforce

\* ---- tests and updates of runAPBS ----

\* faulty variants: a status test that never sees the failure
InitMGFailed_never(status) == FALSE
SolveMGFailed_never(status) == FALSE

\* "if initMG(...) != 1", "if solveMG(...) != 1", "if setPartMG(...) != 1"
InitMGFailed(status) == status # 1
SolveMGFailed(status) == status # 1
SetPartMGFailed(status) == status # 1
\* faulty variant: the status of the map loaders is ignored
LoadMapsFailed_never(status) == FALSE

\* "if loadDielMaps(...) != 1" and its two siblings
LoadMapsFailed(status) == status # 1

\* faulty variant: the calculation type is never looked at
UnsupportedCalcType_never(i) == FALSE

\* "if calc.calctype != 0"
UnsupportedCalcType(i) == Get(nosh.calc, i).calctype # 0

\* faulty variant: the loop stops one calculation short
CalcLoopDone_short(i, ncalc) == i >= ncalc - 1

\* "for icalc in xrange(nosh.ncalc)": the loop is over when icalc reaches ncalc
CalcLoopDone(i, ncalc) == i >= ncalc

\* "for iprint in xrange(nosh.nprint)"
PrintLoopDone(i, nprint) == i >= nprint

\* faulty variant: every total energy is stored in the first entry
totEnergyStore_first(arr, i, e) == [arr EXCEPT ![1] = e]

\* faulty variant: totEnergy[icalc - 1], which Python wraps to the last entry for icalc = 0
totEnergyStore_prev(arr, i, e) == [arr EXCEPT ![IF i = 0 THEN Len(arr) ELSE i] = e]

\* "ret, totEnergy[icalc] = energyMG(...)"
totEnergyStore(arr, i, e) == [arr EXCEPT ![i + 1] = e]

\* faulty variant: the holder is assigned instead of appended to
potListAppend_assign(list, i) == << getPotentials(i) >>

\* "potList.append(potentials)", "energyList.append(energies)"
potListAppend(list, i) == Append(list, getPotentials(i))
energyListAppend(list, i) == Append(list, getEnergies(i))

\* faulty variant: the append is not guarded by doforce
forceListAppend_always(list, doforce, i) == Append(list, getForces(i))

\* "if doforce: forceList.append(getForces(aforce, myAlist))"
forceListAppend(list, doforce, i) ==
    IF doforce # 0 THEN Append(list, getForces(i)) ELSE list

\* the calls the extraction block makes, in program order
ExtractCalls(i, e, doforce) ==
    << Call("energyMG", i, e),
       Call("wrap_forceMG", i, doforce),
       Call("writedataMG", i, 1),
       Call("writematMG", i, 1),
       Call("getPotentials", i, 1),
       Call("getEnergies", i, 1) >>
    \o (IF doforce # 0 THEN << Call("getForces", i, 1) >> ELSE << >>)

\* faulty variant: killMG leaves the solver objects alone
killMG_leak(h) == h

\* killMG(nosh, pbe, pmgp, pmg): destroys the solver objects of every calculation
killMG(h) == {}

\* "raise APBSError, msg": control leaves runAPBS; nothing after the raise runs
Raise(msg) ==
    /\ pc' = "raised"
    /\ error' = msg
    /\ UNCHANGED result

\* ---- the atom records, lines 318-342 ----

\* the start of a line, as characters
ATOM == << "A", "T", "O", "M" >>
HETATM == << "H", "E", "T", "A", "T", "M" >>
REMARK == << "R", "E", "M", "A", "R", "K" >>
Starts == {ATOM, HETATM, REMARK, << " " >> \o ATOM}

\* a line of PQR: how it starts, how many whitespace-separated fields it
\* has, whether the chain-identifier pattern matches, whether the fields
\* read as numbers are numbers; and the empty line
MinFields == 10
PqrLines ==
    [text : Starts, nfields : {MinFields, MinFields + 1}, chain : BOOLEAN,
     numeric : BOOLEAN]
    \cup {[text |-> << >>, nfields |-> 0, chain |-> FALSE, numeric |-> FALSE]}

\* the atom record of line 103, a record one field short, a comment line
DefaultLine == [text |-> ATOM, nfields |-> MinFields, chain |-> FALSE, numeric |-> TRUE]
ShortLine == [text |-> HETATM, nfields |-> MinFields, chain |-> TRUE, numeric |-> TRUE]
MainPQRs == { << DefaultLine >>, << ShortLine >> }
AllPQRs == SeqsUpTo(PqrLines, MaxLines)

\* atom.startswith(prefix)
startswith(text, prefix) ==
    Len(text) >= Len(prefix) /\ SubSeq(text, 1, Len(prefix)) = prefix

\* faulty variant: only ATOM lines are taken
IsAtomRecord_atomOnly(atom) == startswith(atom.text, ATOM)

\* "if not (atom.startswith("ATOM") or atom.startswith("HETATM")): continue"
IsAtomRecord(atom) ==
    startswith(atom.text, ATOM) \/ startswith(atom.text, HETATM)

\* float(params[j]) of line i, as a symbolic value
Field(i, j) == [line |-> i, field |-> j]

NoAtoms == [ok |-> TRUE, x |-> << >>, y |-> << >>, z |-> << >>,
            chg |-> << >>, rad |-> << >>]
NoValist == [n |-> -1, x |-> << >>, y |-> << >>, z |-> << >>,
             chg |-> << >>, rad |-> << >>]

\* the loop over the lines from line i on; acc holds the lists built so far
RECURSIVE LoadFrom(_, _, _)
LoadFrom(atoms, i, acc) ==
    IF i > Len(atoms) THEN acc
    ELSE LET atom == atoms[i]
             haschain == IF atom.chain THEN 1 ELSE 0
         IN IF ~IsAtomRecord(atom) THEN LoadFrom(atoms, i + 1, acc)
            ELSE IF atom.text = << >> THEN LoadFrom(atoms, i + 1, acc)
            ELSE IF atom.nfields <= 9 + haschain \/ ~atom.numeric
                   THEN [acc EXCEPT !.ok = FALSE]
            ELSE LoadFrom(atoms, i + 1,
                   [acc EXCEPT !.x = Append(@, Field(i, 5 + haschain)),
                               !.y = Append(@, Field(i, 6 + haschain)),
                               !.z = Append(@, Field(i, 7 + haschain)),
                               !.chg = Append(@, Field(i, 8 + haschain)),
                               !.rad = Append(@, Field(i, 9 + haschain))])

\* "Valist_load(myAlist, len(x), x,y,z,chg,rad)"
Valist_load(got) ==
    [n |-> Len(got.x), x |-> got.x, y |-> got.y, z |-> got.z,
     chg |-> got.chg, rad |-> got.rad]

\* ---- the state before runAPBS is entered ----
Start(inputs, records) ==
    /\ pc = "start"
    /\ nosh = NOsh_ctor
    /\ totEnergy = << >>
    /\ energyList = << >>
    /\ potList = << >>
    /\ forceList = << >>
    /\ icalc = 0
    /\ iprint = 0
    /\ live = {}
    /\ handles = {}
    /\ freed = [s \in AllStructs |-> 0]
    /\ trace = << >>
    /\ result = NoResult
    /\ error = NoError
    /\ report = << >>
    /\ printed = NoPrint
    /\ INPUT \in inputs
    /\ PQR \in records
    /\ valist = NoValist
    /\ elec_k = Unbound

Init == Start(Configs \cup OversizedConfigs, MainPQRs)

\* lines 282-306: allocate the arrays, construct nosh
InitArrays ==
    /\ pc = "start"
    /\ live' = live \cup InitStructs
    /\ totEnergy' = << >>
    /\ nosh' = NOsh_ctor
    /\ pc' = "parse"
    /\ UNCHANGED <<energyList, potList, forceList, icalc, iprint, handles,
                   freed, trace, result, error, report, printed, INPUT, PQR, valist, elec_k>>

\* lines 310-312: parseInputFromString fills nosh or fails
ParseInput ==
    /\ pc = "parse"
    /\ \E wellformed \in BOOLEAN :
       LET ok == wellformed /\ ~ConfigLimitExceeded(INPUT) IN
         /\ trace' = Append(trace, Call("parseInputFromString", 0, IF ok THEN 1 ELSE 0))
         /\ IF ~ok
              THEN /\ Raise("Error occurred!")
                   /\ UNCHANGED nosh
              ELSE /\ nosh' = [nosh EXCEPT !.elec = INPUT.elec,
                                           !.nelec = Len(INPUT.elec),
                                           !.printwhat = INPUT.printwhat,
                                           !.nprint = Len(INPUT.printwhat)]
                   /\ pc' = "loadAtoms"
                   /\ UNCHANGED <<result, error>>
    /\ UNCHANGED <<totEnergy, energyList, potList, forceList, icalc, iprint,
                   live, handles, freed, report, printed, INPUT, PQR, valist, elec_k>>

\* lines 318-342: build the five coordinate lists from the selected lines and
\* hand them to Valist_load; a selected line that cannot be indexed or
\* converted raises a Python exception out of runAPBS
LoadAtoms ==
    /\ pc = "loadAtoms"
    /\ live' = live \cup {"alist"}
    /\ LET got == LoadFrom(PQR, 1, NoAtoms) IN
         IF ~got.ok
           THEN /\ Raise("malformed atom record")
                /\ UNCHANGED <<trace, valist, elec_k>>
           ELSE /\ valist' = Valist_load(got)
                /\ trace' = Append(trace, Call("Valist_load", 0, 1))
                /\ pc' = "setupElec"
                /\ UNCHANGED <<result, error>>
    /\ UNCHANGED <<nosh, totEnergy, energyList, potList, forceList, icalc,
                   iprint, handles, freed, report, printed, INPUT, PQR, elec_k>>

\* lines 344-354: NOsh_setupElecCalc expands the elec sections into the
\* calculations; totEnergy gets one 0.0 per calculation; the holders start empty
SetupElecCalc ==
    /\ pc = "setupElec"
    /\ \E ok \in BOOLEAN :
         /\ trace' = Append(trace, Call("NOsh_setupElecCalc", 0, IF ok THEN 1 ELSE 0))
         /\ IF ~ok
              THEN /\ Raise("Error setting up calculations!")
                   /\ UNCHANGED <<nosh, totEnergy, energyList, potList, forceList>>
              ELSE /\ nosh' = [nosh EXCEPT !.calc = Expand(nosh.elec),
                                           !.ncalc = Len(Expand(nosh.elec)),
                                           !.elec2calc = LastCalcs(nosh.elec)]
                   /\ totEnergy' = [i \in 1..Len(Expand(nosh.elec)) |-> 0]
                   /\ energyList' = << >>
                   /\ potList' = << >>
                   /\ forceList' = << >>
                   /\ pc' = "dielMaps"
                   /\ UNCHANGED <<result, error>>
    /\ UNCHANGED <<icalc, iprint, live, handles, freed, report, printed, INPUT, PQR, valist, elec_k>>

\* one map-loading step: allocate the grid lists, call the loader, test it
LoadMaps(at, structs, loader, msg, next) ==
    /\ pc = at
    /\ live' = live \cup structs
    /\ \E status \in Statuses :
         /\ trace' = Append(trace, Call(loader, 0, status))
         /\ IF LoadMapsFailed(status)
              THEN Raise(msg)
              ELSE /\ pc' = next
                   /\ UNCHANGED <<result, error>>
    /\ UNCHANGED <<nosh, totEnergy, energyList, potList, forceList, icalc,
                   iprint, handles, freed, report, printed, INPUT, PQR, valist, elec_k>>

\* lines 359-364
LoadDielMaps ==
    LoadMaps("dielMaps", DielStructs, "loadDielMaps",
             "Error reading dielectric maps!", "kappaMaps")

\* lines 366-369
LoadKappaMaps ==
    LoadMaps("kappaMaps", {"kappaMap"}, "loadKappaMaps",
             "Error reading kappa maps!", "chargeMaps")

\* lines 371-378
LoadChargeMaps ==
    LoadMaps("chargeMaps", {"chargeMap"}, "loadChargeMaps",
             "Error reading charge maps!", "calc")

\* ---- the calculation loop, lines 380-457 ----

\* NOsh_elec2calc(nosh, j): the index of the last calculation of section j
NOsh_elec2calc(j) == Get(nosh.elec2calc, j)

\* faulty variant: the test is strict
Covers_strict(j, i) == NOsh_elec2calc(j) > i

\* "if NOsh_elec2calc(nosh,k) >= icalc: break"
Covers(j, i) == NOsh_elec2calc(j) >= i

\* "for k in range(0, nosh.nelec)" from j on, for calculation i: the value k
\* is left with; bound is what k holds when the loop gets to j
RECURSIVE ElecLoop(_, _, _)
ElecLoop(j, bound, i) ==
    IF j >= nosh.nelec THEN bound
    ELSE IF Covers(j, i) THEN j
    ELSE ElecLoop(j + 1, j, i)

\* lines 380-398: fetch the calculation, reject a non-multigrid type
CalcBegin ==
    /\ pc = "calc"
    /\ ~CalcLoopDone(icalc, nosh.ncalc)
    /\ IF UnsupportedCalcType(icalc)
         THEN /\ Raise("Only multigrid calculations supported!")
              /\ UNCHANGED elec_k
         ELSE /\ elec_k' = ElecLoop(0, elec_k, icalc)
              /\ IF elec_k' = Unbound
                   THEN Raise("name 'k' is not defined")
                   ELSE /\ pc' = "initMG"
                        /\ UNCHANGED <<result, error>>
    /\ UNCHANGED <<nosh, totEnergy, energyList, potList, forceList, icalc,
                   iprint, live, handles, freed, trace, report, printed, INPUT, PQR, valist>>

\* lines 402-412: set up the solver objects of calculation icalc
InitMG ==
    /\ pc = "initMG"
    /\ \E status \in Statuses :
         /\ trace' = Append(trace, Call("initMG", icalc, status))
         /\ IF InitMGFailed(status)
              THEN /\ Raise("Error setting up MG calculation!")
                   /\ UNCHANGED handles
              ELSE /\ handles' = handles \cup {icalc}
                   /\ pc' = "solveMG"
                   /\ UNCHANGED <<result, error>>
    /\ UNCHANGED <<nosh, totEnergy, energyList, potList, forceList, icalc,
                   iprint, live, freed, report, printed, INPUT, PQR, valist, elec_k>>

\* lines 416-420
SolveMG ==
    /\ pc = "solveMG"
    /\ \E status \in Statuses :
         /\ trace' = Append(trace, Call("solveMG", icalc, status))
         /\ IF SolveMGFailed(status)
              THEN Raise("Error Solving PDE!")
              ELSE /\ pc' = "setPartMG"
                   /\ UNCHANGED <<result, error>>
    /\ UNCHANGED <<nosh, totEnergy, energyList, potList, forceList, icalc,
                   iprint, live, handles, freed, report, printed, INPUT, PQR, valist, elec_k>>

\* lines 424-426
SetPartMG ==
    /\ pc = "setPartMG"
    /\ \E status \in Statuses :
         /\ trace' = Append(trace, Call("setPartMG", icalc, status))
         /\ IF SetPartMGFailed(status)
              THEN Raise("Error setting partition info!")
              ELSE /\ pc' = "extract"
                   /\ UNCHANGED <<result, error>>
    /\ UNCHANGED <<nosh, totEnergy, energyList, potList, forceList, icalc,
                   iprint, live, handles, freed, report, printed, INPUT, PQR, valist, elec_k>>

\* lines 430-457: the straight-line rest of the loop body: store the total
\* energy, compute forces if asked, write data, append to the holders; then the
\* loop moves on to the next calculation
Extract ==
    /\ pc = "extract"
    /\ \E e \in EnergyVals :
         LET doforce == wrap_forceMG(icalc) IN
           /\ totEnergy' = totEnergyStore(totEnergy, icalc, e)
           /\ potList' = potListAppend(potList, icalc)
           /\ energyList' = energyListAppend(energyList, icalc)
           /\ forceList' = forceListAppend(forceList, doforce, icalc)
           /\ trace' = trace \o ExtractCalls(icalc, e, doforce)
    /\ icalc' = icalc + 1
    /\ pc' = "calc"
    /\ UNCHANGED <<nosh, iprint, live, handles, freed, result, error, report, printed, INPUT, PQR, valist, elec_k>>

\* lines 380, 461-463: the loop is exhausted; on to the print statements
CalcLoopExit ==
    /\ pc = "calc"
    /\ CalcLoopDone(icalc, nosh.ncalc)
    /\ pc' = "print"
    /\ UNCHANGED <<nosh, totEnergy, energyList, potList, forceList, icalc,
                   iprint, live, handles, freed, trace, result, error, report, printed, INPUT, PQR, valist, elec_k>>

\* ---- the print statements, lines 464-471 ----

\* the call a directive of kind what makes
PrintCall(what, i) ==
    IF what = NPT_ENERGY THEN Call("printEnergy", i, 1)
    ELSE IF what = NPT_FORCE THEN Call("printForce", i, 1)
    ELSE Call("Undefined PRINT keyword!", i, 0)

\* faulty variant: an unrecognized directive aborts the run
AfterPrint_abort(what) ==
    IF what \in {NPT_ENERGY, NPT_FORCE} THEN "print" ELSE "raised"

\* where the loop goes after a directive of kind what: the else branch breaks
AfterPrint(what) ==
    IF what \in {NPT_ENERGY, NPT_FORCE} THEN "print" ELSE "cleanup"

\* the operand lists a directive can carry: one calculation, or two joined
\* by + or -, each named by its one-based position ("print energy 1 - 2 end")
OperandLists(ncalc) ==
    {<< [sign |-> 1, calc |-> a] >> : a \in 1..ncalc}
    \cup {<< [sign |-> 1, calc |-> a], [sign |-> sg, calc |-> b] >> :
            a \in 1..ncalc, b \in 1..ncalc, sg \in {1, -1}}

\* the signed sum an energy directive evaluates to
RECURSIVE SignedSum(_, _)
SignedSum(totE, operands) ==
    IF operands = << >> THEN 0
    ELSE operands[1].sign * Get(totE, operands[1].calc - 1)
         + SignedSum(totE, Tail(operands))

\* printEnergy(com, nosh, totEnergy, iprint)
printEnergy(totE, operands) == SignedSum(totE, operands)

\* what the directive of kind what leaves behind; the operands are those
\* parsed for it
Evaluate(what, i, operands) ==
    IF what = NPT_ENERGY
      THEN [iprint |-> i, what |-> what, operands |-> operands,
            value |-> printEnergy(totEnergy, operands)]
      ELSE [iprint |-> i, what |-> what, operands |-> << >>, value |-> 0]

PrintDirective ==
    /\ pc = "print"
    /\ ~PrintLoopDone(iprint, nosh.nprint)
    /\ LET what == Get(nosh.printwhat, iprint) IN
         /\ trace' = Append(trace, PrintCall(what, iprint))
         /\ pc' = AfterPrint(what)
         /\ \E operands \in (IF what = NPT_ENERGY /\ nosh.ncalc > 0
                               THEN OperandLists(nosh.ncalc) ELSE {<< >>}) :
              printed' = Evaluate(what, iprint, operands)
    /\ iprint' = iprint + 1
    /\ UNCHANGED <<nosh, totEnergy, energyList, potList, forceList, icalc,
                   live, handles, freed, result, error, report, INPUT, PQR, valist, elec_k>>

PrintLoopExit ==
    /\ pc = "print"
    /\ PrintLoopDone(iprint, nosh.nprint)
    /\ pc' = "cleanup"
    /\ UNCHANGED <<nosh, totEnergy, energyList, potList, forceList, icalc,
                   iprint, live, handles, freed, trace, result, error, report, printed, INPUT, PQR, valist, elec_k>>

\* ---- cleanup and return, lines 473-511 ----

\* lines 477-483: the kill* calls, in program order
KillCalls ==
    << Call("killForce", 0, 1), Call("killEnergy", 0, 1), Call("killMG", 0, 1),
       Call("killChargeMaps", 0, 1), Call("killKappaMaps", 0, 1),
       Call("killDielMaps", 0, 1), Call("killMolecules", 0, 1) >>

\* one delete_* call: the routine and the structure it releases
Delete(op, s) == [op |-> op, idx |-> 0, ret |-> 1, args |-> {s}]

\* faulty variant: dielXMap is deleted a second time in place of dielZMap
DeleteCalls_twice ==
    << Delete("delete_double_array", "realCenter"),
       Delete("delete_int_array", "nforce"),
       Delete("delete_atomforcelist", "atomforce"),
       Delete("delete_valist", "alist"),
       Delete("delete_gridlist", "dielXMap"),
       Delete("delete_gridlist", "dielYMap"),
       Delete("delete_gridlist", "dielXMap"),
       Delete("delete_gridlist", "kappaMap"),
       Delete("delete_gridlist", "chargeMap"),
       Delete("delete_pmglist", "pmg"),
       Delete("delete_pmgplist", "pmgp"),
       Delete("delete_pbelist", "pbe") >>

\* lines 488-499: the delete_* calls, in program order
DeleteCalls ==
    << Delete("delete_double_array", "realCenter"),
       Delete("delete_int_array", "nforce"),
       Delete("delete_atomforcelist", "atomforce"),
       Delete("delete_valist", "alist"),
       Delete("delete_gridlist", "dielXMap"),
       Delete("delete_gridlist", "dielYMap"),
       Delete("delete_gridlist", "dielZMap"),
       Delete("delete_gridlist", "kappaMap"),
       Delete("delete_gridlist", "chargeMap"),
       Delete("delete_pmglist", "pmg"),
       Delete("delete_pmgplist", "pmgp"),
       Delete("delete_pbelist", "pbe") >>

\* the structures the delete_* calls release, and how often each
Deleted == UNION {DeleteCalls[p].args : p \in 1..Len(DeleteCalls)}
Releases(s) == Cardinality({p \in 1..Len(DeleteCalls) : DeleteCalls[p].args = {s}})

Cleanup ==
    /\ pc = "cleanup"
    /\ handles' = killMG(handles)
    /\ live' = live \ Deleted
    /\ freed' = [s \in AllStructs |-> freed[s] + Releases(s)]
    /\ trace' = trace \o KillCalls \o DeleteCalls
    /\ pc' = "return"
    /\ UNCHANGED <<nosh, totEnergy, energyList, potList, forceList, icalc,
                   iprint, result, error, report, printed, INPUT, PQR, valist, elec_k>>

\* line 511
Return ==
    /\ pc = "return"
    /\ result' = <<energyList, potList, forceList>>
    /\ pc' = "returned"
    /\ UNCHANGED <<nosh, totEnergy, energyList, potList, forceList, icalc,
                   iprint, live, handles, freed, trace, error, report, printed, INPUT, PQR, valist, elec_k>>

\* ---- printResults, lines 219-276, called by the main program at line 526 ----

\* Boltzmann's and Avogadro's constants, as the digits of lines 105 and 106
\* (1.3806581e-23 and 6.0221367e+23)
Python_kb == 13806581
Python_Na == 60221367

\* faulty variant: the factor is taken at the temperature of the first calculation
getUnitConversion_configured ==
    [kb |-> Python_kb, div |-> 1000,
     temp |-> IF nosh.ncalc > 0 THEN Get(nosh.calc, 0).temp ELSE RoomTemp,
     Na |-> Python_Na]

\* getUnitConversion(): Python_kb/1000.0 * temp * Python_Na with temp = 298.15,
\* kept as its operands
getUnitConversion ==
    LET temp == 29815 IN
      [kb |-> Python_kb, div |-> 1000, temp |-> temp, Na |-> Python_Na]

\* what each printed number is multiplied by
Unscaled == [factors |-> {}, halved |-> FALSE]
Scaled(factor, halved) == [factors |-> {factor}, halved |-> halved]

\* one "... from calculation %i" block per position of a list
Blocks(section, list, scale) ==
    [i \in 1..Len(list) |->
       [section |-> section, label |-> i - 1, data |-> list[i], scale |-> scale]]

printResults(eList, pList, fList) ==
    LET factor == getUnitConversion IN
      Blocks("potentials", pList, Unscaled)
      \o Blocks("energies", eList, Scaled(factor, TRUE))
      \o Blocks("forces", fList, Scaled(factor, FALSE))

PrintResults ==
    /\ pc = "returned"
    /\ report' = printResults(result[1], result[2], result[3])
    /\ pc' = "done"
    /\ UNCHANGED <<nosh, totEnergy, energyList, potList, forceList, icalc,
                   iprint, live, handles, freed, trace, result, error,
                   printed, INPUT, PQR, valist, elec_k>>

Next ==
    \/ InitArrays
    \/ ParseInput
    \/ LoadAtoms
    \/ SetupElecCalc
    \/ LoadDielMaps
    \/ LoadKappaMaps
    \/ LoadChargeMaps
    \/ CalcBegin
    \/ InitMG
    \/ SolveMG
    \/ SetPartMG
    \/ Extract
    \/ CalcLoopExit
    \/ PrintDirective
    \/ PrintLoopExit
    \/ Cleanup
    \/ Return
    \/ PrintResults

Spec == Init /\ [][Next]_vars

\* ---- the atom loader over every list of lines ----
\* an input without calculations, and any atom records of up to MaxLines lines
InitAtoms ==
    Start({[elec |-> << >>, printwhat |-> << >>, nmol |-> 1]}, AllPQRs)

NextAtoms ==
    \/ InitArrays
    \/ ParseInput
    \/ LoadAtoms

SpecAtoms == InitAtoms /\ [][NextAtoms]_vars

\* ---- the section lookup over inputs whose sections are focused ----
ElecConfigs ==
    [elec : ElecLists([calctype : {0}, calcforce : {0, 2}, temp : {RoomTemp},
                       ncalcs : {1, 2}], MaxCalc),
     printwhat : SeqsUpTo({NPT_ENERGY}, 1),
     nmol : {1}]

InitElec == Start(ElecConfigs, MainPQRs)

SpecElec == InitElec /\ [][Next]_vars

\* ---- the report over inputs that declare other temperatures ----
ReportConfigs ==
    [elec : ElecLists([calctype : {0}, calcforce : {0, 2}, temp : Temps, ncalcs : {1}], MaxCalc),
     printwhat : SeqsUpTo({NPT_ENERGY}, 1),
     nmol : {1}]

InitReport == Start(ReportConfigs, MainPQRs)

SpecReport == InitReport /\ [][Next]_vars

\* ======================================================================
\* Properties
\* ======================================================================

SolverOps == {"initMG", "solveMG", "setPartMG", "energyMG", "wrap_forceMG",
              "writedataMG", "writematMG", "getPotentials", "getEnergies",
              "getForces"}
ExtractOps == SolverOps \ {"initMG", "solveMG", "setPartMG"}
LifecycleOps == {"initMG", "solveMG", "setPartMG"}
PrintOps == {"printEnergy", "printForce", "Undefined PRINT keyword!"}

Pos == 1..Len(trace)
SolverPos == {p \in Pos : trace[p].op \in SolverOps}
PrintPos == {p \in Pos : trace[p].op \in PrintOps}

\* the calculations 0..n-1 of the run
Calcs == 0..(nosh.ncalc - 1)
\* the calculations that asked for forces
Forced == {c \in Calcs : Get(nosh.calc, c).calcforce # 0}

\* runAPBS got past the print loop without raising
PastPrint == pc \in {"cleanup", "return", "returned", "done"}

\* the solver calls of the history, in the order they were made
IsSolverCall(c) == c.op \in SolverOps
SolverCalls == SelectSeq(trace, IsSolverCall)

\* C1: the solver operations are issued in configured list order and never
\* overlap.  Along the solver calls made so far: the first is the setup of
\* calculation 0; the calculation index never decreases; a setup is that of
\* the calculation after the one whose extraction precedes it; solveMG
\* directly follows a successful initMG of the same calculation, setPartMG a
\* successful solveMG, and an extraction call follows a successful setPartMG
\* or another extraction call of the same calculation.
C1_SolverOpsInListOrder ==
    LET S == SolverCalls IN
      /\ Len(S) > 0 => (S[1].op = "initMG" /\ S[1].idx = 0)
      /\ \A k \in 1..(Len(S) - 1) :
           LET a == S[k]
               b == S[k + 1]
           IN /\ a.idx <= b.idx
              /\ b.op = "initMG" => (a.op \in ExtractOps /\ b.idx = a.idx + 1)
              /\ b.op = "solveMG" => a = Call("initMG", b.idx, 1)
              /\ b.op = "setPartMG" => a = Call("solveMG", b.idx, 1)
              /\ b.op \in ExtractOps =>
                   /\ a.idx = b.idx
                   /\ a = Call("setPartMG", b.idx, 1) \/ a.op \in ExtractOps

\* a run in which the second calculation was set up after the first was
\* fully extracted
C1_Witness ==
    \E p, q \in Pos :
      /\ p < q
      /\ trace[p] = Call("getEnergies", 0, 1)
      /\ trace[q] = Call("initMG", 1, 1)
      /\ pc = "done"

\* C2: a non-success status of initMG, solveMG or setPartMG aborts runAPBS at
\* once: the failed call is the last call ever made (no solver operation of a
\* later calculation, no print directive), an error has left runAPBS, and the
\* caller has received no result lists and printed nothing.
C2_FailureAbortsRun ==
    \A p \in Pos :
      (trace[p].op \in LifecycleOps /\ trace[p].ret # 1) =>
        /\ p = Len(trace)
        /\ pc = "raised"
        /\ error # NoError
        /\ result = NoResult
        /\ report = << >>

\* solveMG fails for the second calculation after the first was aggregated
C2_Witness ==
    /\ pc = "raised"
    /\ Len(trace) > 0
    /\ trace[Len(trace)] = Call("solveMG", 1, 0)
    /\ Len(potList) = 1
    /\ nosh.ncalc = 2

\* the errors of the solver lifecycle and of map loading
LifecycleErrors == {"Error setting up MG calculation!", "Error Solving PDE!",
                    "Error setting partition info!",
                    "Error reading dielectric maps!", "Error reading kappa maps!",
                    "Error reading charge maps!"}

\* C3: when a setup, solve, partition or map-load failure has left runAPBS,
\* every resource acquired so far (solver handles, native lists) is released.
C3_ReleasedBeforeErrorPropagates ==
    (pc = "raised" /\ error \in LifecycleErrors) =>
      /\ handles = {}
      /\ live = {}

C6_ForcesOnlyWhenRequested ==
    LET done == 0..(icalc - 1)
        asked == {c \in done : Get(nosh.calc, c).calcforce # 0}
    IN /\ Len(forceList) = Cardinality(asked)
       /\ \A k \in 1..Len(forceList) :
            /\ forceList[k].kind = "forces"
            /\ forceList[k].calc \in asked
       /\ \A k, l \in 1..Len(forceList) :
            k < l => forceList[k].calc < forceList[l].calc
       /\ \A c \in done \ asked :
            /\ Get(potList, c) = getPotentials(c)
            /\ Get(energyList, c) = getEnergies(c)

\* a calculation without forces was completed, then one with forces
C6_Witness ==
    /\ icalc = 2
    /\ Get(nosh.calc, 0).calcforce = 0
    /\ Get(nosh.calc, 1).calcforce # 0
    /\ forceList = << getForces(1) >>
    /\ Len(potList) = 2

\* C7: in the returned lists forceList is indexed by calculation number:
\* forceList[c] is the bundle of calculation c for every calculation that
\* computed forces, and printResults labels every bundle with the
\* calculation it came from.
C7_ForceListIndexedByCalc ==
    /\ result # NoResult =>
         \A c \in Forced :
           /\ c < Len(result[3])
           /\ Get(result[3], c) = getForces(c)
    /\ \A b \in 1..Len(report) :
         report[b].section = "forces" => report[b].data.calc = report[b].label

\* the energyMG calls made for calculation i
EnergyWrites(i) == {p \in Pos : trace[p].op = "energyMG" /\ trace[p].idx = i}

\* NOsh_setupElecCalc has succeeded, so line 349 has run
Sized == \E p \in Pos : trace[p] = Call("NOsh_setupElecCalc", 0, 1)

\* C8: once sized, totEnergy has ncalc entries from before the first
\* calculation on; entry i is written at most once, by calculation i, with
\* the energy energyMG returned for it, and is 0.0 until then; from the print
\* directives on every entry has been written exactly once and keeps the
\* value returned for its calculation.
C8_TotEnergyWrittenOncePerIndex ==
    /\ (\E p \in Pos : trace[p].op = "initMG") => Sized
    /\ Sized =>
         /\ Len(totEnergy) = nosh.ncalc
         /\ \A i \in Calcs :
              /\ Cardinality(EnergyWrites(i)) <= 1
              /\ EnergyWrites(i) = {} => Get(totEnergy, i) = 0
              /\ \A p \in EnergyWrites(i) : Get(totEnergy, i) = trace[p].ret
              /\ (pc \in {"print"} \/ PastPrint) => Cardinality(EnergyWrites(i)) = 1
    /\ \A p \in Pos : trace[p].op = "energyMG" => trace[p].idx \in Calcs

\* two calculations with different energies, seen from the print phase
C8_Witness ==
    /\ pc = "print"
    /\ iprint = 1
    /\ nosh.ncalc = 2
    /\ Get(totEnergy, 0) = 1
    /\ Get(totEnergy, 1) = 2

\* what a print directive may be handed besides the communicator and nosh
DirectiveData == {"com", "nosh", "totEnergy", "nforce", "atomforce"}

\* C9: when a print directive is evaluated every configured calculation has
\* completed, no solver operation follows any directive evaluation, and a
\* directive is handed only the total-energy array or the force results.
C9_PrintAfterAllCalculations ==
    /\ \A q \in PrintPos :
         /\ \A c \in Calcs :
              \E p \in 1..(q - 1) : trace[p] = Call("getEnergies", c, 1)
         /\ \A p \in SolverPos : p < q
    /\ PrintPos # {} => icalc = nosh.ncalc
    /\ \A q \in PrintPos : trace[q].args \subseteq DirectiveData

\* a directive was evaluated after two calculations
C9_Witness ==
    /\ PrintPos # {}
    /\ nosh.ncalc = 2
    /\ pc = "cleanup"

\* the directives processed so far, in the order they were processed
RECURSIVE ProcessedUpTo(_)
ProcessedUpTo(n) ==
    IF n = 0 THEN << >>
    ELSE IF trace[n].op \in PrintOps
           THEN Append(ProcessedUpTo(n - 1), trace[n].idx)
           ELSE ProcessedUpTo(n - 1)

\* C10: when all calculations succeeded, every print directive 0..nprint-1
\* has been processed exactly once and in declared order by the time the
\* print loop is left.
C10_EveryDirectiveProcessedOnce ==
    PastPrint => ProcessedUpTo(Len(trace)) = [k \in 1..nosh.nprint |-> k - 1]

\* the unrecognized directives reported so far
UndefinedPos == {p \in Pos : trace[p].op = "Undefined PRINT keyword!"}

\* C11: an unrecognized print directive does not abort the run: once it has
\* been reported runAPBS is in or past its cleanup with no error raised, and
\* when runAPBS has returned the cleanup has run (every handle and native
\* list released) and the caller holds the complete energyList, potList and
\* forceList of all ncalc calculations.
C11_UndefinedDirectiveNotFatal ==
    UndefinedPos # {} =>
      /\ PastPrint
      /\ error = NoError
      /\ pc \in {"return", "returned", "done"} =>
           /\ handles = {}
           /\ live = {}
           /\ \E p \in Pos : trace[p].op = "killMG" /\ \A q \in UndefinedPos : q < p
      /\ pc \in {"returned", "done"} =>
           /\ result = <<energyList, potList, forceList>>
           /\ Len(result[1]) = nosh.ncalc
           /\ Len(result[2]) = nosh.ncalc
           /\ Len(result[3]) = Cardinality(Forced)

\* a run of two calculations returned its lists after an unrecognized directive
C11_Witness ==
    /\ UndefinedPos # {}
    /\ pc = "returned"
    /\ nosh.ncalc = 2
    /\ Len(result[1]) = 2
    /\ Len(result[3]) = 1

\* the total energy energyMG returned for calculation c
ReturnedEnergy(c) ==
    CHOOSE e \in EnergyVals : \E p \in EnergyWrites(c) : trace[p].ret = e

\* C12: an energy directive evaluates to the signed sum, over its operand
\* list, of the total energies the solver returned for the calculations the
\* operands name by one-based position; "print energy 1 - 2" gives the energy
\* of calculation 0 minus that of calculation 1.
C12_EnergyDirectiveSignedSum ==
    (printed # NoPrint /\ printed.what = NPT_ENERGY /\ printed.operands # << >>) =>
      LET o == printed.operands
          term(k) == o[k].sign * ReturnedEnergy(o[k].calc - 1)
      IN /\ \A k \in 1..Len(o) : EnergyWrites(o[k].calc - 1) # {}
         /\ Len(o) = 1 => printed.value = term(1)
         /\ Len(o) = 2 => printed.value = term(1) + term(2)
         /\ o = << [sign |-> 1, calc |-> 1], [sign |-> -1, calc |-> 2] >> =>
              printed.value = ReturnedEnergy(0) - ReturnedEnergy(1)

\* "print energy 1 - 2" evaluated to 1 - 2 = -1
C12_Witness ==
    /\ printed # NoPrint
    /\ printed.what = NPT_ENERGY
    /\ printed.operands = << [sign |-> 1, calc |-> 1], [sign |-> -1, calc |-> 2] >>
    /\ Get(totEnergy, 0) = 1
    /\ Get(totEnergy, 1) = 2
    /\ printed.value = -1

\* the calculations of a type other than multigrid
Unsupported == {c \in Calcs : Get(nosh.calc, c).calctype # 0}
\* the first of them, or ncalc when every calculation is multigrid
FirstUnsupported ==
    IF Unsupported = {} THEN nosh.ncalc
    ELSE CHOOSE j \in Unsupported : \A c \in Unsupported : j <= c
\* calculation i was set up, solved and aggregated
FullyDone(i) ==
    /\ \A op \in LifecycleOps \cup {"energyMG", "getPotentials", "getEnergies"} :
         \E p \in Pos : trace[p].op = op /\ trace[p].idx = i /\ trace[p].ret # 0
    /\ i < Len(potList) /\ Get(potList, i) = getPotentials(i)
    /\ i < Len(energyList) /\ Get(energyList, i) = getEnergies(i)

\* C13: a calculation of a non-multigrid type is rejected at its own position.
\* No solver operation is ever invoked for the first unsupported calculation j
\* or for any later one; the rejection is raised with icalc = j after the
\* calculations 0..j-1 were set up, solved and aggregated, and no result is
\* returned; a run that gets to the print directives has no such calculation.
C13_UnsupportedTypeRejectedLazily ==
    Sized =>
      /\ \A p \in SolverPos : trace[p].idx < FirstUnsupported
      /\ error = "Only multigrid calculations supported!" =>
           /\ pc = "raised"
           /\ Unsupported # {}
           /\ icalc = FirstUnsupported
           /\ \A i \in 0..(icalc - 1) : FullyDone(i)
           /\ Len(potList) = icalc
           /\ result = NoResult
      /\ (pc = "print" \/ PastPrint) => Unsupported = {}

\* the second calculation is not multigrid: the first one ran in full, then
\* the run was rejected
C13_Witness ==
    /\ error = "Only multigrid calculations supported!"
    /\ nosh.ncalc = 2
    /\ FirstUnsupported = 1
    /\ FullyDone(0)
    /\ Len(potList) = 1

\* the apbslib routines of the phase before the calculation loop
PreOps == {"parseInputFromString", "NOsh_setupElecCalc", "loadDielMaps",
           "loadKappaMaps", "loadChargeMaps"}
\* the message runAPBS raises when the routine reports failure
PreError(op) ==
    CASE op = "parseInputFromString" -> "Error occurred!"
      [] op = "NOsh_setupElecCalc" -> "Error setting up calculations!"
      [] op = "loadDielMaps" -> "Error reading dielectric maps!"
      [] op = "loadKappaMaps" -> "Error reading kappa maps!"
      [] op = "loadChargeMaps" -> "Error reading charge maps!"
\* the positions of the history where a routine of the phase failed
PreFailures == {p \in Pos : trace[p].op \in PreOps /\ trace[p].ret # 1}

\* C14: a failure of the phase before the calculations is fatal and comes
\* before any calculation.  A failed parse, setup or map load is the last call
\* of the run: runAPBS raises its message at once, no solver operation is in
\* the history and no result is returned; the same holds for a malformed atom
\* record; and initMG is only ever invoked after all five routines succeeded.
C14_PrePhaseFailureFatal ==
    /\ \A p \in PreFailures :
         /\ p = Len(trace)
         /\ pc = "raised"
         /\ error = PreError(trace[p].op)
    /\ (PreFailures # {} \/ error = "malformed atom record") =>
         /\ pc = "raised"
         /\ SolverPos = {}
         /\ handles = {}
         /\ result = NoResult
         /\ report = << >>
    /\ SolverPos # {} =>
         \A op \in PreOps : \E p \in Pos :
            /\ trace[p] = Call(op, 0, 1)
            /\ \A q \in SolverPos : p < q

\* two calculations are configured and the kappa maps fail to load
C14_Witness ==
    /\ error = "Error reading kappa maps!"
    /\ pc = "raised"
    /\ Len(nosh.elec) = 2
    /\ nosh.ncalc = 2
    /\ trace[Len(trace)] = Call("loadKappaMaps", 0, 0)

\* C15: an input with more than 20 calculations or more than 20 molecules is
\* rejected as a configuration error before any calculation runs; no solver
\* operation is ever given a calculation index of 20 or more, no solver handle
\* has such an index, and the calculation list is never cut short: once
\* sized, the calculations of the run are exactly the ones the input declares.
C15_CapacityLimitEnforced ==
    /\ ConfigLimitExceeded(INPUT) =>
         /\ pc \in {"start", "parse", "raised"}
         /\ pc = "raised" => error = "Error occurred!"
         /\ SolverPos = {}
         /\ nosh.ncalc = 0
         /\ result = NoResult
    /\ \A p \in SolverPos : trace[p].idx < NOSH_MAXCALC
    /\ \A h \in handles : h < NOSH_MAXMOL
    /\ Len(totEnergy) <= NOSH_MAXCALC
    /\ Sized => /\ nosh.ncalc = TotalCalcs(INPUT.elec)
                /\ Len(nosh.calc) = nosh.ncalc
                /\ nosh.nelec = Len(INPUT.elec)
                /\ INPUT.nmol <= NOSH_MAXMOL
    /\ PastPrint => Len(potList) = TotalCalcs(INPUT.elec)

\* the input declares 21 calculations and the run ends at the parser
C15_Witness ==
    /\ Len(INPUT.elec) = NOSH_MAXCALC + 1
    /\ pc = "raised"
    /\ error = "Error occurred!"
    /\ trace = << Call("parseInputFromString", 0, 0) >>

\* the lines of PQR that start with ATOM or HETATM, by position
Selected ==
    {i \in 1..Len(PQR) :
        \/ Len(PQR[i].text) >= 4 /\ SubSeq(PQR[i].text, 1, 4) = ATOM
        \/ Len(PQR[i].text) >= 6 /\ SubSeq(PQR[i].text, 1, 6) = HETATM}
\* the position among the selected lines of line i
Rank(i) == Cardinality({j \in Selected : j <= i})

\* C16: the atom set handed to Valist_load has exactly one atom per line that
\* starts with ATOM or HETATM and none for any other line: the count equals
\* the number of selected lines, the five lists have that length, and atom k
\* carries the five fields of the k-th selected line.  A run whose records
\* cannot be read loads no atom set at all.
C16_OneAtomPerRecordInOrder ==
    /\ valist # NoValist =>
         /\ valist.n = Cardinality(Selected)
         /\ \A l \in {valist.x, valist.y, valist.z, valist.chg, valist.rad} :
              Len(l) = valist.n
         /\ \A k \in 1..valist.n :
              LET i == valist.x[k].line IN
                /\ i \in Selected
                /\ Rank(i) = k
                /\ valist.y[k].line = i /\ valist.z[k].line = i
                /\ valist.chg[k].line = i /\ valist.rad[k].line = i
                /\ valist.x[k].field = 5 + (IF PQR[i].chain THEN 1 ELSE 0)
                /\ valist.rad[k].field = valist.x[k].field + 4
         /\ \A i \in Selected : \E k \in 1..valist.n : valist.x[k].line = i
    /\ error = "malformed atom record" =>
         /\ valist = NoValist
         /\ \E i \in Selected : PQR[i].nfields < 10 + (IF PQR[i].chain THEN 1 ELSE 0)
                                \/ ~PQR[i].numeric
    /\ (\E p \in Pos : trace[p].op = "Valist_load") <=> valist # NoValist

\* a comment line, then a HETATM record with a chain identifier: one atom,
\* taken from the second line
C16_Witness ==
    /\ Len(PQR) >= 2
    /\ PQR[1].text = REMARK
    /\ PQR[2].text = HETATM /\ PQR[2].chain
    /\ valist.n = Cardinality(Selected)
    /\ valist.x[valist.n] = Field(2, 6)

\* C18: the conversion factor is the one constant
\* (1.3806581e-23 / 1000) * 298.15 * 6.0221367e23 in every state, whatever
\* temperatures the calculations declare; printResults multiplies the
\* energies (halved) and the forces of every calculation by that factor and
\* leaves the potentials unscaled.
C18_UnitConversionFixed ==
    LET fixed == [kb |-> 13806581, div |-> 1000, temp |-> 29815, Na |-> 60221367] IN
      /\ getUnitConversion = fixed
      /\ \A b \in 1..Len(report) :
           /\ report[b].section = "potentials" => report[b].scale = Unscaled
           /\ report[b].section = "energies" => report[b].scale = Scaled(fixed, TRUE)
           /\ report[b].section = "forces" => report[b].scale = Scaled(fixed, FALSE)
      /\ pc = "done" =>
           \A c \in Calcs : \E b \in 1..Len(report) :
              /\ report[b].section = "energies"
              /\ report[b].label = c
              /\ report[b].scale.factors = {fixed}

\* two calculations at different temperatures, neither 298.15 for the first,
\* both reported
C18_Witness ==
    /\ pc = "done"
    /\ nosh.ncalc = 2
    /\ Get(nosh.calc, 0).temp # RoomTemp
    /\ Get(nosh.calc, 1).temp = RoomTemp
    /\ Get(nosh.calc, 1).calcforce # 0
    /\ \E b \in 1..Len(report) : report[b].section = "forces"
    /\ \A b \in 1..Len(report) :
         report[b].section = "energies" => report[b].scale.factors = {getUnitConversion}

\* the calculations declared before section j (sections counted from 0)
CalcsBefore(j) == TotalCalcs(SubSeq(INPUT.elec, 1, j))
\* runAPBS is inside the body of the calculation loop, past the lookup
InLoopBody == pc \in {"initMG", "solveMG", "setPartMG", "extract"}

\* C19: inside the loop body for calculation icalc, k is a valid section
\* index, it is the smallest one whose elec2calc is at least icalc, and the
\* section it names is the one whose calculations include icalc; the lookup
\* never leaves k unassigned.
C19_ElecSectionCoversCalc ==
    /\ InLoopBody =>
         /\ elec_k \in 0..(nosh.nelec - 1)
         /\ NOsh_elec2calc(elec_k) >= icalc
         /\ \A j \in 0..(elec_k - 1) : NOsh_elec2calc(j) < icalc
         /\ CalcsBefore(elec_k) <= icalc
         /\ icalc < CalcsBefore(elec_k + 1)
    /\ error # "name 'k' is not defined"

\* the second calculation of a focused section is labelled by that section,
\* the one calculation of a second section by the second section
C19_Witness ==
    /\ pc = "initMG"
    /\ icalc = 1
    /\ \/ nosh.nelec = 1 /\ elec_k = 0 /\ NOsh_elec2calc(0) = 1
       \/ nosh.nelec = 2 /\ elec_k = 1 /\ NOsh_elec2calc(0) = 0

DeleteOps == {"delete_double_array", "delete_int_array", "delete_atomforcelist",
              "delete_valist", "delete_gridlist", "delete_pmglist",
              "delete_pmgplist", "delete_pbelist"}
\* the positions of the end-of-run cleanup
KillOps == {"killForce", "killEnergy", "killMG", "killChargeMaps",
            "killKappaMaps", "killDielMaps", "killMolecules"}
CleanupPos == {p \in Pos : trace[p].op \in DeleteOps \cup KillOps}
\* runAPBS is past line 499
CleanedUp == pc \in {"return", "returned", "done"}
\* the twelve native structures runAPBS allocates
Native == {"realCenter", "nforce", "atomforce", "alist", "dielXMap", "dielYMap",
           "dielZMap", "kappaMap", "chargeMap", "pmg", "pmgp", "pbe"}

IsDelete(c) == c.op \in DeleteOps
\* the delete_* calls of the history, in the order they were made
Deletes == SelectSeq(trace, IsDelete)

\* C20: in a run without fatal error the cleanup comes after the last print
\* directive and before the result lists are returned, and releases each of
\* the twelve native structures exactly once; no structure is ever released
\* twice, and no call made after a structure's release is handed that
\* structure.  In the history: twelve delete calls, one per structure; the
\* cleanup calls are the end of the history, so no solver or directive call
\* follows them; and after the first delete only deletes follow, each of a
\* structure not yet released.
C20_CleanupReleasesEachOnce ==
    /\ \A s \in AllStructs : freed[s] <= 1
    /\ CleanedUp =>
         /\ \A s \in Native : freed[s] = 1 /\ s \notin live
         /\ handles = {}
         /\ Len(Deletes) = Cardinality(Native)
         /\ {Deletes[p].args : p \in 1..Len(Deletes)} = {{s} : s \in Native}
         /\ \A q \in 1..(Len(trace) - 1) :
              /\ trace[q].op \in DeleteOps \cup KillOps =>
                   trace[q + 1].op \in DeleteOps \cup KillOps
              /\ trace[q].op \in DeleteOps => trace[q + 1].op \in DeleteOps
         /\ trace[Len(trace)].op \in DeleteOps
    /\ ~CleanedUp => /\ CleanupPos = {}
                     /\ \A s \in AllStructs : freed[s] = 0
                     /\ result = NoResult

\* a run with two calculations and a print directive has returned: every
\* structure is released and the cleanup calls end the history
C20_Witness ==
    /\ pc = "returned"
    /\ nosh.ncalc = 2
    /\ PrintPos # {}
    /\ \A s \in Native : freed[s] = 1
    /\ trace[Len(trace)] = Delete("delete_pbelist", "pbe")

====
